---- MODULE Spec2Model ----
(***************************************************************************)
(* Model of the snowflake id generator of src/src/lib.rs.                  *)
(*                                                                         *)
(* A 64-bit (or 32-bit, or 16-bit) machine word is modelled by the set of  *)
(* the positions of its one bits: bit 0 is the least significant one, so   *)
(* the word {0, 22} is 2^22 + 1.  Bitwise or is set union, a left shift    *)
(* moves every position up and drops what leaves the word, and widening a  *)
(* signed word copies its sign bit.  i64 values are compared as Rust       *)
(* compares them (two's complement), ids also as unsigned values.          *)
(***************************************************************************)
EXTENDS Integers, FiniteSets, Sequences

VARIABLES
    instance,          \* SnowflakeIdGen.instance: i32
    last_time_millis,  \* SnowflakeIdGen.last_time_millis: i64 (a word)
    idx,               \* SnowflakeIdGen.idx: u16
    clock,             \* the reading of the clock source: i64 (a word)
    ret,               \* the value returned by the latest generate call
    prev,              \* what the call before it returned: "idle", "none" or "some"
    calls,             \* number of generate calls of the frozen-clock run
    marked,            \* an id returned by an earlier call, remembered for
                       \* comparison with the ids returned after it
    pc,                \* where each thread of the test stands in its loop
    got,               \* the ids each thread of the test has collected
    lock,              \* the thread that holds the mutex, 0 when it is free
    epoch,             \* SnowflakeIdGen.epoch: the SystemTime given to with_epoch
    wall,              \* SystemTime::now()
    alive,             \* "unbuilt" before with_epoch, "live" once it returned,
                       \* "panicked" once an expect() failed
    log,               \* the calls made so far: clock reading and value returned
    issued,            \* ids issued since last_time_millis was last set
    now_millis         \* the local now_millis of each thread inside generate

gen == <<instance, last_time_millis, idx>>
threads == <<pc, got, lock>>
sys == <<epoch, wall, alive>>
hist == <<log, issued, now_millis>>
vars == <<instance, last_time_millis, idx, clock, ret, prev, calls, marked,
          pc, got, lock, epoch, wall, alive, log, issued, now_millis>>

----------------------------------------------------------------------------
(* Program constants. *)

\* lib.rs:50  `if self.idx >= 4095`
SeqMax == 4095
\* lib.rs:60  `self.last_time_millis << 22`
TimeShift == 22
\* lib.rs:60  `self.instance << 12`
InstanceShift == 12
\* widths of i64, i32 and u16
W64 == 64
W32 == 32
W16 == 16

(* Bounds of the model. *)

\* the clock source returns 0..MaxTick milliseconds, or TopTime
MaxTick == 1
\* the frozen-clock run makes at most SeqMax + ExtraCalls calls
ExtraCalls == 3
\* only ids whose sequence field is at most MarkMax are remembered in marked
MarkMax == 2
\* the threads of the test (THREAD_COUNT is 16 in lib.rs:82)
ThreadCount == 2
\* the ids each thread collects (IDS_PER_THREAD is 2000 in lib.rs:83)
IdsPerThread == 1
\* the sequence counter of the shared generator starts at 0 or at most
\* StartGap below SeqMax
StartGap == 1
\* SystemTime values are 0..MaxWall, in units of 1/SubMilli millisecond
MaxWall == 3
SubMilli == 2
\* a generator on the system clock is called at most MaxWallCalls times
MaxWallCalls == 3
\* generate calls of the logged run
MaxLogCalls == 4

----------------------------------------------------------------------------
(* Machine words. *)

\* 2^n for the n that fit a TLC integer
Pow2Table[n \in 0..30] == IF n = 0 THEN 1 ELSE 2 * Pow2Table[n - 1]
Pow2(n) == Pow2Table[n]

\* the word of a natural number below 2^31
Bits(n) == {i \in 0..30 : (n \div Pow2(i)) % 2 = 1}

\* the 32-bit two's complement word of an i32 value
I32(n) == IF n >= 0 THEN Bits(n) ELSE (0..31) \ Bits(-n - 1)

\* x << n on a w-bit word: bits shifted out of the word are lost
Shl(x, n, w) == {b + n : b \in x} \cap (0..(w - 1))

\* `as i64` of an i32 word: sign extension
I32AsI64(x) == IF 31 \in x THEN x \cup (32..63) ELSE x

\* `as i64` of a u16 value: zero extension
U16AsI64(n) == Bits(n)

\* a | b
BitOr(a, b) == a \cup b

Max(S) == CHOOSE x \in S : \A y \in S : y <= x

\* a < b, both read as unsigned words
ULess(a, b) == a # b /\ Max((a \ b) \cup (b \ a)) \in b

\* a < b, both read as i64
SLess(a, b) == IF (63 \in a) # (63 \in b) THEN 63 \in a ELSE ULess(a, b)

----------------------------------------------------------------------------
(* Values. *)

\* Option<i64>; Idle stands for "no call was made yet"
Idle == [kind |-> "idle", id |-> {}]
None == [kind |-> "none", id |-> {}]
Some(x) == [kind |-> "some", id |-> x]
IsSome(r) == r.kind = "some"

\* the largest 42-bit timestamp, 2^42 - 1
TopTime == 0..41

\* the readings of the clock source
Times == {Bits(n) : n \in 0..MaxTick} \cup {TopTime}

\* the instance tags a generator is constructed with
Instances == {0, 1024, 4095}

----------------------------------------------------------------------------
(* SnowflakeIdGen *)

\* mutant: the instance tag shifted to the place of the timestamp
Encode_InstanceShift22(time, inst, seq) ==
    BitOr(BitOr(Shl(time, TimeShift, W64),
                I32AsI64(Shl(I32(inst), TimeShift, W32))),
          U16AsI64(seq))

\* lib.rs:60: self.last_time_millis << 22 | ((self.instance << 12) as i64) | (self.idx as i64)
Encode(time, inst, seq) ==
    BitOr(BitOr(Shl(time, TimeShift, W64),
                I32AsI64(Shl(I32(inst), InstanceShift, W32))),
          U16AsI64(seq))

\* mutant: the bound checked one too late
Exhausted_OffByOne(seq) == seq > SeqMax

\* lib.rs:50: the counter is full for this millisecond
Exhausted(seq) == seq >= SeqMax

\* mutant: the counter is used before it is incremented
Incr_Not(seq) == seq

\* lib.rs:58: self.idx += 1 on a u16
Incr(seq) == (seq + 1) % Pow2(W16)

\* mutant: the counter is incremented before it is checked, so a failing
\* call advances it
generate_IncrementFirst(now) ==
    /\ prev' = ret.kind
    /\ IF now = last_time_millis
       THEN IF Exhausted(idx)
            THEN /\ ret' = None
                 /\ idx' = Incr(idx)
                 /\ UNCHANGED last_time_millis
            ELSE /\ idx' = Incr(idx)
                 /\ UNCHANGED last_time_millis
                 /\ ret' = Some(Encode(last_time_millis', instance, idx'))
       ELSE /\ last_time_millis' = now
            /\ idx' = Incr(0)
            /\ ret' = Some(Encode(last_time_millis', instance, idx'))
    /\ UNCHANGED instance

\* mutant: a reading smaller than last_time_millis is refused
generate_RefuseRollback(now) ==
    /\ prev' = ret.kind
    /\ IF now = last_time_millis
       THEN IF Exhausted(idx)
            THEN /\ ret' = None
                 /\ UNCHANGED <<last_time_millis, idx>>
            ELSE /\ idx' = Incr(idx)
                 /\ UNCHANGED last_time_millis
                 /\ ret' = Some(Encode(last_time_millis', instance, idx'))
       ELSE IF SLess(now, last_time_millis)
            THEN /\ ret' = None
                 /\ UNCHANGED <<last_time_millis, idx>>
            ELSE /\ last_time_millis' = now
                 /\ idx' = Incr(0)
                 /\ ret' = Some(Encode(last_time_millis', instance, idx'))
    /\ UNCHANGED instance

\* lib.rs:43-61: generate_with_millis_fn, with now_millis = f(self.epoch) = now
generate_with_millis_fn(now) ==
    /\ prev' = ret.kind
    /\ IF now = last_time_millis
       THEN IF Exhausted(idx)
            THEN /\ ret' = None
                 /\ UNCHANGED <<last_time_millis, idx>>
            ELSE /\ idx' = Incr(idx)
                 /\ UNCHANGED last_time_millis
                 /\ ret' = Some(Encode(last_time_millis', instance, idx'))
       ELSE /\ last_time_millis' = now
            /\ idx' = Incr(0)
            /\ ret' = Some(Encode(last_time_millis', instance, idx'))
    /\ UNCHANGED instance

\* lib.rs:27-37: the generator after with_epoch(inst, epoch), which read the
\* clock as now
with_epoch(inst, now) ==
    /\ instance = inst
    /\ last_time_millis = now
    /\ idx = 0

\* the clock source is a closure given to generate_with_millis_fn: the
\* system clock is not read, and no call is logged
Injected ==
    /\ epoch = 0
    /\ wall = 0
    /\ alive = "live"
    /\ log = <<>>
    /\ issued = 0
    /\ now_millis = <<>>

\* no thread runs
NoThreads ==
    /\ pc = <<>>
    /\ got = <<>>
    /\ lock = 0

----------------------------------------------------------------------------
(* The generator driven by a clock source that may return any reading. *)

Init ==
    /\ \E inst \in Instances, now \in Times : with_epoch(inst, now)
    /\ clock = last_time_millis
    /\ ret = Idle
    /\ prev = "idle"
    /\ calls = 0
    /\ marked = None
    /\ NoThreads
    /\ Injected

\* lib.rs:43-47: a call of generate_with_millis_fn whose clock source returns t
Generate ==
    \E t \in Times :
        /\ clock' = t
        /\ generate_with_millis_fn(t)
        /\ UNCHANGED <<calls, marked, threads, sys, hist>>

Next == Generate

Spec == Init /\ [][Next]_vars

----------------------------------------------------------------------------
(* The generator driven by a clock source that never goes backwards.  The  *)
(* observer may remember one of the ids returned, to compare it with the   *)
(* ids returned later.                                                     *)

Remember ==
    \/ UNCHANGED marked
    \/ /\ marked = None
       /\ IsSome(ret)
       /\ idx <= MarkMax
       /\ marked' = ret

GenerateMono ==
    \E t \in Times :
        /\ ~SLess(t, clock)
        /\ clock' = t
        /\ generate_with_millis_fn(t)
        /\ Remember
        /\ UNCHANGED <<calls, threads, sys, hist>>

NextMono == GenerateMono

SpecMono == Init /\ [][NextMono]_vars

----------------------------------------------------------------------------
(* tests::fail_after_4095 (lib.rs:123-133): a generator made by            *)
(* with_epoch(0, SystemTime::now()) and called with the clock source       *)
(* |_| 0, that is a clock source that returns the same reading each time. *)

InitFrozen ==
    /\ \E now \in Times : with_epoch(0, now)
    /\ clock \in Times
    /\ ret = Idle
    /\ prev = "idle"
    /\ calls = 0
    /\ marked = None
    /\ NoThreads
    /\ Injected

GenerateFrozen ==
    /\ calls < SeqMax + ExtraCalls
    /\ calls' = calls + 1
    /\ generate_with_millis_fn(clock)
    /\ UNCHANGED <<clock, marked, threads, sys, hist>>

NextFrozen == GenerateFrozen

SpecFrozen == InitFrozen /\ [][NextFrozen]_vars

----------------------------------------------------------------------------
(* tests::no_duplication_between_multiple_threads (lib.rs:85-121):         *)
(* ThreadCount threads share one generator behind a mutex; each collects   *)
(* IdsPerThread ids, and after a None drops the lock, sleeps and tries     *)
(* again.  generate reads the real clock, which only moves forward here.   *)
(* The generator may have issued ids before it was shared, so its counter  *)
(* starts at 0 or close to SeqMax.                                         *)

Threads == 1..ThreadCount

StartIdx == {0} \cup ((SeqMax - StartGap)..(SeqMax - 1))

InitThreads ==
    /\ instance \in Instances
    /\ last_time_millis \in Times
    /\ idx \in StartIdx
    /\ clock = last_time_millis
    /\ ret = Idle
    /\ prev = "idle"
    /\ calls = 0
    /\ marked = None
    /\ pc = [t \in Threads |-> "lock"]
    /\ got = [t \in Threads |-> <<>>]
    /\ lock = 0
    /\ Injected

\* mutant: the generator is taken without waiting for the mutex
Acquire_NoMutex(t) ==
    /\ pc[t] = "lock"
    /\ lock' = t
    /\ pc' = [pc EXCEPT ![t] = "call"]
    /\ UNCHANGED <<gen, clock, ret, prev, calls, marked, got, sys, hist>>

\* lib.rs:110: generator.lock().unwrap()
Acquire(t) ==
    /\ pc[t] = "lock"
    /\ lock = 0
    /\ lock' = t
    /\ pc' = [pc EXCEPT ![t] = "call"]
    /\ UNCHANGED <<gen, clock, ret, prev, calls, marked, got, sys, hist>>

\* mutant: after None the thread goes to sleep with the lock held
Call_KeepLock(t) ==
    /\ pc[t] = "call"
    /\ lock = t
    /\ generate_with_millis_fn(clock)
    /\ IF IsSome(ret')
       THEN /\ got' = [got EXCEPT ![t] = Append(@, ret'.id)]
            /\ lock' = 0
            /\ pc' = [pc EXCEPT ![t] =
                         IF Len(got[t]) + 1 = IdsPerThread THEN "done" ELSE "lock"]
       ELSE /\ got' = got
            /\ lock' = t
            /\ pc' = [pc EXCEPT ![t] = "sleep"]
    /\ UNCHANGED <<clock, calls, marked, sys, hist>>

\* lib.rs:112-116: lock.generate() under the lock; Some(id) ends the cycle
\* (and the guard is dropped), None drops the lock and goes to sleep
Call(t) ==
    /\ pc[t] = "call"
    /\ lock = t
    /\ generate_with_millis_fn(clock)
    /\ lock' = 0
    /\ IF IsSome(ret')
       THEN /\ got' = [got EXCEPT ![t] = Append(@, ret'.id)]
            /\ pc' = [pc EXCEPT ![t] =
                         IF Len(got[t]) + 1 = IdsPerThread THEN "done" ELSE "lock"]
       ELSE /\ got' = got
            /\ pc' = [pc EXCEPT ![t] = "sleep"]
    /\ UNCHANGED <<clock, calls, marked, sys, hist>>

\* lib.rs:117: thread::sleep(Duration::from_millis(1)) returns
\* and the loop starts over
Wake(t) ==
    /\ pc[t] = "sleep"
    /\ pc' = [pc EXCEPT ![t] = "lock"]
    /\ UNCHANGED <<gen, clock, ret, prev, calls, marked, got, lock, sys, hist>>

\* lib.rs:67: SystemTime::now() moves forward
ClockTick ==
    /\ \E t \in Times : SLess(clock, t) /\ clock' = t
    /\ UNCHANGED <<gen, ret, prev, calls, marked, threads, sys, hist>>

NextThreads ==
    \/ \E t \in Threads : Acquire(t) \/ Call(t) \/ Wake(t)
    \/ ClockTick

SpecThreads == InitThreads /\ [][NextThreads]_vars

\* The same run under a fair scheduler and a clock that keeps advancing:
\* every thread that can take a step eventually takes one, and the clock,
\* which has not reached the last reading of the model, ticks again.  The
\* generator is the one of the test, with_epoch(0, ...), at the point where
\* it is about to run out of sequence numbers for its millisecond, so that
\* threads do get None and retry.
InitThreadsFair ==
    /\ InitThreads
    /\ instance = 0
    /\ clock # TopTime
    /\ idx # 0

SpecThreadsFair ==
    /\ InitThreadsFair
    /\ [][NextThreads]_vars
    /\ \A t \in Threads :
          WF_vars(Acquire(t)) /\ WF_vars(Call(t)) /\ WF_vars(Wake(t))
    /\ WF_vars(ClockTick)

----------------------------------------------------------------------------
(* The same test with generate taken statement by statement: the lock is   *)
(* held from lock() to the end of the cycle, and between the statements    *)
(* of one thread the other threads and the clock may move.  The generator  *)
(* is the one of the test, with_epoch(0, ...), after it issued idx ids.    *)

InitSteps ==
    /\ clock \in Times
    /\ instance = 0
    /\ last_time_millis = clock
    /\ idx \in StartIdx
    /\ ret = Idle
    /\ prev = "idle"
    /\ calls = 0
    /\ marked = None
    /\ pc = [t \in Threads |-> "lock"]
    /\ got = [t \in Threads |-> <<>>]
    /\ lock = 0
    /\ epoch = 0
    /\ wall = 0
    /\ alive = "live"
    /\ log = <<>>
    /\ issued = idx
    /\ now_millis = [t \in Threads |-> {}]

\* lib.rs:47-50: now_millis is read and compared with the fields
ReadClock(t) ==
    /\ pc[t] = "call"
    /\ now_millis' = [now_millis EXCEPT ![t] = clock]
    /\ pc' = [pc EXCEPT ![t] =
                 IF clock = last_time_millis
                 THEN IF Exhausted(idx) THEN "fail" ELSE "incr"
                 ELSE "set_time"]
    /\ UNCHANGED <<gen, clock, ret, prev, calls, marked, got, lock, sys, log, issued>>

\* lib.rs:54: self.last_time_millis = now_millis
SetTime(t) ==
    /\ pc[t] = "set_time"
    /\ last_time_millis' = now_millis[t]
    /\ issued' = 0
    /\ pc' = [pc EXCEPT ![t] = "set_idx"]
    /\ UNCHANGED <<instance, idx, clock, ret, prev, calls, marked, got, lock, sys,
                   log, now_millis>>

\* lib.rs:55: self.idx = 0
SetIdx(t) ==
    /\ pc[t] = "set_idx"
    /\ idx' = 0
    /\ pc' = [pc EXCEPT ![t] = "incr"]
    /\ UNCHANGED <<instance, last_time_millis, clock, ret, prev, calls, marked, got,
                   lock, sys, hist>>

\* lib.rs:58: self.idx += 1
IncrIdx(t) ==
    /\ pc[t] = "incr"
    /\ idx' = Incr(idx)
    /\ pc' = [pc EXCEPT ![t] = "encode"]
    /\ UNCHANGED <<instance, last_time_millis, clock, ret, prev, calls, marked, got,
                   lock, sys, hist>>

\* lib.rs:60, 112-113: Some(id) is returned, the cycle ends with the id
\* and the guard is dropped
Return(t) ==
    /\ pc[t] = "encode"
    /\ prev' = ret.kind
    /\ ret' = Some(Encode(last_time_millis, instance, idx))
    /\ issued' = issued + 1
    /\ got' = [got EXCEPT ![t] = Append(@, ret'.id)]
    /\ lock' = 0
    /\ pc' = [pc EXCEPT ![t] =
                 IF Len(got[t]) + 1 = IdsPerThread THEN "done" ELSE "lock"]
    /\ UNCHANGED <<gen, clock, calls, marked, sys, log, now_millis>>

\* lib.rs:51, 115-117: None is returned, the lock is dropped and the
\* thread goes to sleep
Fail(t) ==
    /\ pc[t] = "fail"
    /\ prev' = ret.kind
    /\ ret' = None
    /\ lock' = 0
    /\ pc' = [pc EXCEPT ![t] = "sleep"]
    /\ UNCHANGED <<gen, clock, calls, marked, got, sys, hist>>

NextSteps ==
    \/ \E t \in Threads :
          \/ Acquire(t)
          \/ ReadClock(t)
          \/ SetTime(t)
          \/ SetIdx(t)
          \/ IncrIdx(t)
          \/ Return(t)
          \/ Fail(t)
          \/ Wake(t)
    \/ ClockTick

SpecSteps == InitSteps /\ [][NextSteps]_vars

----------------------------------------------------------------------------
(* The encoding of lib.rs:60 as a function of the three fields, applied    *)
(* to field values of every kind.                                          *)

CodecTimes == Times \cup {{41}, {0, 41}}
CodecInstances == {0, 1, 1023, 1024, 2048, 4095}
CodecSeqs == {0, 1, SeqMax}

InitCodec ==
    /\ instance \in CodecInstances
    /\ last_time_millis \in CodecTimes
    /\ idx \in CodecSeqs
    /\ clock = last_time_millis
    /\ ret = Idle
    /\ prev = "idle"
    /\ calls = 0
    /\ marked = None
    /\ NoThreads
    /\ Injected

\* lib.rs:60: Some(...) of the fields as they are
EncodeFields ==
    /\ ret = Idle
    /\ ret' = Some(Encode(last_time_millis, instance, idx))
    /\ UNCHANGED <<gen, clock, prev, calls, marked, threads, sys, hist>>

NextCodec == EncodeFields

SpecCodec == InitCodec /\ [][NextCodec]_vars

\* The decoding the bit layout describes: timestamp in bits 63..22,
\* instance in bits 21..12, sequence in bits 11..0.
Shr(x, n) == {b - n : b \in {c \in x : c >= n}}
DecodeTimestamp(id) == Shr(id, TimeShift)
DecodeInstance(id) ==
    CHOOSE n \in 0..1023 : Bits(n) = Shr(id \cap (0..(TimeShift - 1)), InstanceShift)
DecodeSequence(id) ==
    CHOOSE n \in 0..4095 : Bits(n) = id \cap (0..(InstanceShift - 1))

----------------------------------------------------------------------------
(* The generator on the system clock: with_epoch and generate read         *)
(* SystemTime::now() through get_time_millis, and the system clock may be  *)
(* set forward or back at any time.                                        *)

\* the instance argument is any i32
WallInstances == Instances \cup {4096, 1048576, -1}

WallTimes == 0..MaxWall

\* mutant: an epoch equal to now is refused as well
EpochIsLater_OrEqual(ep) == wall <= ep

\* mutant: the failure of duration_since goes unnoticed
EpochIsLater_Never(ep) == FALSE

\* lib.rs:67-69: SystemTime::now().duration_since(epoch) is an Err, and
\* expect("The epoch is later then now") panics
EpochIsLater(ep) == wall < ep

\* mutant: the time since the UNIX epoch, whatever the epoch given
get_time_millis_Absolute(ep) == Bits(wall \div SubMilli)

\* lib.rs:66-71: get_time_millis when it does not panic: the whole
\* milliseconds of now - epoch, as i64
get_time_millis(ep) == Bits((wall - ep) \div SubMilli)

InitWall ==
    /\ wall \in WallTimes
    /\ alive = "unbuilt"
    /\ epoch = 0
    /\ instance = 0
    /\ last_time_millis = {}
    /\ idx = 0
    /\ clock = {}
    /\ ret = Idle
    /\ prev = "idle"
    /\ calls = 0
    /\ marked = None
    /\ NoThreads
    /\ log = <<>>
    /\ issued = 0
    /\ now_millis = <<>>

\* lib.rs:27-37: with_epoch(inst, ep)
Construct ==
    /\ alive = "unbuilt"
    /\ \E inst \in WallInstances, ep \in WallTimes :
          /\ epoch' = ep
          /\ IF EpochIsLater(ep)
             THEN /\ alive' = "panicked"
                  /\ UNCHANGED <<gen, clock>>
             ELSE /\ alive' = "live"
                  /\ instance' = inst
                  /\ last_time_millis' = get_time_millis(ep)
                  /\ idx' = 0
                  /\ clock' = get_time_millis(ep)
    /\ UNCHANGED <<wall, ret, prev, calls, marked, threads, hist>>

\* lib.rs:39-41: generate(), that is generate_with_millis_fn(get_time_millis)
GenerateWall ==
    /\ alive = "live"
    /\ calls < MaxWallCalls
    /\ calls' = calls + 1
    /\ IF EpochIsLater(epoch)
       THEN /\ alive' = "panicked"
            /\ UNCHANGED <<gen, clock, ret, prev>>
       ELSE /\ generate_with_millis_fn(get_time_millis(epoch))
            /\ clock' = get_time_millis(epoch)
            /\ UNCHANGED alive
    /\ UNCHANGED <<epoch, wall, marked, threads, hist>>

\* lib.rs:67: SystemTime::now() later returns more
WallForward ==
    /\ \E w \in WallTimes : w > wall /\ wall' = w
    /\ UNCHANGED <<gen, clock, ret, prev, calls, marked, threads, epoch, alive, hist>>

\* lib.rs:67: the system clock was set back
WallBack ==
    /\ \E w \in WallTimes : w < wall /\ wall' = w
    /\ UNCHANGED <<gen, clock, ret, prev, calls, marked, threads, epoch, alive, hist>>

NextWall == Construct \/ GenerateWall \/ WallForward \/ WallBack

SpecWall == InitWall /\ [][NextWall]_vars

----------------------------------------------------------------------------
(* A generator whose calls are logged: each call of                        *)
(* generate_with_millis_fn gets any reading, smaller ones included, and    *)
(* its reading and result are appended to log.                             *)

\* lib.rs:43-47: a call of generate_with_millis_fn whose clock source returns t
GenerateLog ==
    /\ Len(log) < MaxLogCalls
    /\ \E t \in Times :
          /\ clock' = t
          /\ generate_with_millis_fn(t)
          /\ log' = Append(log, [now |-> t, ret |-> ret'])
    /\ UNCHANGED <<calls, marked, threads, sys, issued, now_millis>>

NextLog == GenerateLog

SpecLog == Init /\ [][NextLog]_vars

----------------------------------------------------------------------------
(* Properties. *)

\* bit j of the natural number n
BitOf(n, j) == j <= 30 /\ (n \div Pow2(j)) % 2 = 1

\* the sequence field of an id: its low 12 bits
SeqField(id) == id \cap (0..11)

\* C1: with the clock source frozen, a fresh generator returns Some on
\* exactly the first 4095 calls and None on the 4096th and on every later one.
C1_SaturationBoundary ==
    calls >= 1 =>
        /\ calls <= 4095 => IsSome(ret)
        /\ calls >= 4096 => ret = None

\* C1 witness: the call after the 4096th was made and failed as well.
C1_Witness == calls = 4097 /\ ret = None /\ prev = "none"

\* C3 as stated: under a clock that never goes backwards no id is returned
\* twice, for every instance tag in 0..4095.
C3_NoDuplicateId ==
    (marked # None /\ IsSome(ret)) => ret.id # marked.id

\* C4 as stated: under a clock that never goes backwards every id returned
\* is, as an unsigned value, at least every id returned before it.
C4_NonDecreasingIds ==
    (marked # None /\ IsSome(ret)) => ~ULess(ret.id, marked.id)

\* C5: a call returns None exactly when its clock reading equals
\* last_time_millis and the sequence counter is 4095 already, and Some(id)
\* in every other case.
C5_Outcome ==
    [][ /\ ret'.kind \in {"none", "some"}
        /\ ret'.kind = "none" <=> (clock' = last_time_millis /\ idx = 4095) ]_vars

\* C5 witness: a call failed right after a successful one.
C5_Witness == ret = None /\ prev = "some" /\ idx = 4095

\* C6: a successful call made with clock reading now returns
\* (now << 22) | (instance << 12) | s, s being the sequence counter after
\* the call, and leaves last_time_millis = now.
C6_Encoding ==
    IsSome(ret) =>
        /\ last_time_millis = clock
        /\ \A k \in 0..63 :
              k \in ret.id <=>
                 \/ k >= 22 /\ (k - 22) \in clock
                 \/ k >= 12 /\ BitOf(instance, k - 12)
                 \/ BitOf(idx, k)

\* C6 witness: the largest instance tag, the largest 42-bit timestamp and
\* the largest sequence number were encoded.
C6_Witness ==
    IsSome(ret) /\ instance = 4095 /\ clock = TopTime /\ idx = 4095

\* C8: a call whose clock reading differs from last_time_millis succeeds,
\* and the sequence field of the id it returns is 1.
C8_ResetOnTick ==
    [][ clock' # last_time_millis =>
            IsSome(ret') /\ SeqField(ret'.id) = Bits(1) ]_vars

\* C8 witness: the generator was saturated (the previous call returned
\* None) and the call at the next reading returned an id of sequence 1.
C8_Witness ==
    /\ prev = "none"
    /\ IsSome(ret)
    /\ clock = Bits(1)
    /\ SeqField(ret.id) = Bits(1)

\* C9: the sequence counter stays within 0..4095, so the u16 increment never
\* overflows, and at 4095 a call within the same millisecond fails and
\* leaves the counter alone.
C9_BoundedSequence ==
    /\ idx \in 0..4095
    /\ [][ /\ idx' \in 0..4095
           /\ idx' # idx => idx + 1 < 65536
           /\ (idx = 4095 /\ clock' = last_time_millis) =>
                  (ret' = None /\ idx' = idx) ]_vars

\* C9 witness: the counter is full and the call was refused.
C9_Witness == idx = 4095 /\ ret = None /\ clock = last_time_millis

\* C10 as stated: None is returned only once more than 4096 requests were
\* made within the millisecond.
C10_Budget4096 == ret = None => calls > 4096

\* C10 amended: a generator issues at most 4095 ids within one millisecond;
\* the first 4095 requests get the ids of sequence 1..4095 and None is
\* returned only once more than 4095 requests were made.
C10_Budget4095 ==
    /\ ret = None => calls > 4095
    /\ IsSome(ret) => (idx = calls /\ SeqField(ret.id) = Bits(calls))

\* C10 witness: the 4095th request of the millisecond got the last id.
C10_Witness == calls = 4095 /\ IsSome(ret) /\ idx = 4095

\* C2 as stated: the ids the threads collect from the shared generator,
\* under a clock that never goes backwards, are all distinct.
C2_NoCollision ==
    \A t1 \in DOMAIN got, t2 \in DOMAIN got :
        \A i \in 1..Len(got[t1]), j \in 1..Len(got[t2]) :
            (t1 # t2 \/ i # j) => got[t1][i] # got[t2][j]

\* C7 as stated: decoding the fields of the encoded id gives back the
\* timestamp, the instance tag and the sequence number that were encoded.
C7_RoundTrip ==
    IsSome(ret) =>
        /\ DecodeTimestamp(ret.id) = last_time_millis
        /\ DecodeInstance(ret.id) = instance
        /\ DecodeSequence(ret.id) = idx

\* C11: with_epoch with an epoch not later than now gives a generator whose
\* last_time_millis is the whole milliseconds from epoch to now and whose
\* sequence is 0; with a later epoch it panics and gives no generator.
C11_Construction ==
    [][ (alive = "unbuilt" /\ alive' # "unbuilt") =>
            IF epoch' <= wall
            THEN /\ alive' = "live"
                 /\ idx' = 0
                 /\ \E ms \in 0..MaxWall :
                       /\ ms * SubMilli <= wall - epoch'
                       /\ wall - epoch' < (ms + 1) * SubMilli
                       /\ last_time_millis' = Bits(ms)
            ELSE /\ alive' = "panicked"
                 /\ UNCHANGED gen ]_vars

\* C11 witness: a generator was made one millisecond after an epoch that is
\* not the UNIX epoch, and was not called yet.
C11_Witness ==
    /\ alive = "live"
    /\ calls = 0
    /\ epoch > 0
    /\ last_time_millis = Bits(1)
    /\ idx = 0

\* C12: a call that returns None changes none of sequence,
\* last_time_millis, instance and epoch.
C12_ExhaustionKeepsState ==
    [][ ret'.kind = "none" =>
            UNCHANGED <<idx, last_time_millis, instance, epoch>> ]_vars

\* C12 witness: two calls in a row were refused at the same reading.
C12_Witness ==
    /\ ret = None
    /\ prev = "none"
    /\ idx = SeqMax
    /\ last_time_millis = clock

\* C13: a thread that has just acquired the lock finds no other thread
\* inside generate, and finds the sequence counter equal to the number of
\* ids issued since last_time_millis was last set: it never sees a new
\* last_time_millis with the count of the millisecond before.
C13_JointUpdate ==
    \A t \in DOMAIN pc :
        pc[t] = "call" =>
            /\ idx = issued
            /\ \A u \in DOMAIN pc \ {t} :
                  pc[u] \in {"lock", "sleep", "done"}

\* C13 witness: a thread holds the lock, about to call generate, after a
\* call found the generator full and the clock moved on: the next
\* statements set last_time_millis and the counter one after the other.
C13_Witness ==
    /\ \E t \in DOMAIN pc : pc[t] = "call"
    /\ ret = None
    /\ idx = SeqMax
    /\ issued = SeqMax
    /\ clock # last_time_millis

\* C14: under a fair scheduler and an advancing clock every thread ends
\* with all the ids it asked for, and a thread that waits (asleep, or
\* about to lock) never holds the lock.
C14_RetrySucceeds ==
    /\ <>(\A t \in Threads : pc[t] = "done" /\ Len(got[t]) = IdsPerThread)
    /\ [](\A t \in Threads : pc[t] \in {"sleep", "lock", "done"} => lock # t)

\* C14 witness: all threads are done, and the last id was obtained by a
\* call that followed a refused one.
C14_Witness ==
    /\ \A t \in DOMAIN pc : pc[t] = "done"
    /\ DOMAIN pc # {}
    /\ prev = "none"
    /\ IsSome(ret)

\* C15: no generate call on the system clock, whether it returns an id, None
\* or panics, changes instance or epoch, and the instance field (bits 21..12)
\* of the id a generator built with an instance tag in 0..4095 has returned
\* is that instance tag.
C15_Frame ==
    [][ calls' # calls =>
          /\ instance' = instance
          /\ epoch' = epoch
          /\ (IsSome(ret') /\ instance \in 0..SeqMax) =>
                 DecodeInstance(ret'.id) = instance ]_vars

\* C16: a call whose clock reading is smaller than last_time_millis returns
\* Some, leaves last_time_millis at the reading and the counter at 1, and
\* its id has sequence field 1; when the preceding call returned an id, the
\* new id has a smaller timestamp field (bits 63..22) than that id and is,
\* as an unsigned value, smaller than that id.
C16_RollbackIsTick ==
    [][ SLess(clock', last_time_millis) =>
          /\ IsSome(ret')
          /\ last_time_millis' = clock'
          /\ idx' = 1
          /\ SeqField(ret'.id) = {0}
          /\ IsSome(ret) =>
                /\ ULess(DecodeTimestamp(ret'.id), DecodeTimestamp(ret.id))
                /\ ULess(ret'.id, ret.id) ]_vars

\* C17 as stated: whenever a generator built with an instance tag outside
\* 0..4095 has returned an id, the timestamp field of the id (bits 63..22)
\* differs from the clock reading of the call.
C17_TimestampNeverReading ==
    (alive = "live" /\ IsSome(ret) /\ instance \notin 0..SeqMax) =>
        DecodeTimestamp(ret.id) # last_time_millis

\* the timestamp bits an instance tag sets: bit j - 10 for every one bit j
\* in 10..19 of the tag, and bits 10..41 as well when bit 19 is a one
SpilledBits(inst) ==
    LET low == TimeShift - InstanceShift
        top == W32 - InstanceShift - 1
    IN  {j - low : j \in I32(inst) \cap (low..top)}
        \cup (IF top \in I32(inst) THEN low..(W64 - TimeShift - 1) ELSE {})

\* C17: construction panics only on an epoch later than now, whatever the
\* instance tag; a generate call that does not panic returns None exactly
\* when its reading equals last_time_millis and the counter is 4095, whatever
\* the instance tag; and the timestamp field of the id returned is the clock
\* reading of the call with the spilled bits of the instance tag set.
C17_NoValidation ==
    [][ /\ (alive = "unbuilt" /\ alive' = "panicked") => wall < epoch'
        /\ (calls' # calls /\ alive' = "live") =>
              /\ IsSome(ret') <=> ~(clock' = last_time_millis /\ idx >= SeqMax)
              /\ IsSome(ret') =>
                    DecodeTimestamp(ret'.id) = clock' \cup SpilledBits(instance) ]_vars

\* C17 witness: a generator built with instance tag 2^20 has returned an id
\* whose timestamp field is the clock reading of the call.
C17_Witness ==
    /\ alive = "live"
    /\ instance = 1048576
    /\ IsSome(ret)
    /\ last_time_millis = Bits(1)
    /\ DecodeTimestamp(ret.id) = last_time_millis

\* C18: when three successive calls read T, T' and T with T' different from
\* T, the third call returns an id with sequence field 1, and that id is
\* the id of every call up to the first of the three that read T and
\* returned an id with sequence field 1.
C18_RollbackRepeatsId ==
    \A k \in 3..Len(log) :
        (log[k - 2].now = log[k].now /\ log[k - 1].now # log[k].now) =>
            /\ IsSome(log[k].ret)
            /\ SeqField(log[k].ret.id) = {0}
            /\ \A j \in 1..(k - 2) :
                  (/\ log[j].now = log[k].now
                   /\ IsSome(log[j].ret)
                   /\ SeqField(log[j].ret.id) = {0}) =>
                      log[k].ret.id = log[j].ret.id

\* C18 witness: two calls read T, the first of them returned the id with
\* sequence field 1, the third call read another T', and the fourth call
\* read T again and returned the id of the first.
C18_Witness ==
    /\ Len(log) = 4
    /\ log[1].now = log[2].now
    /\ log[2].now = log[4].now
    /\ log[3].now # log[4].now
    /\ IsSome(log[1].ret)
    /\ SeqField(log[1].ret.id) = {0}
    /\ log[4].ret = log[1].ret

\* C19: a generate call on the system clock made while now is earlier than
\* the epoch of the generator panics, returns nothing and leaves
\* last_time_millis, the counter, instance and epoch as they were; a call
\* made at any other time returns Some or None.
C19_GeneratePanics ==
    [][ (alive = "live" /\ calls' # calls) =>
          IF wall < epoch
          THEN /\ alive' = "panicked"
               /\ UNCHANGED <<gen, epoch>>
               /\ ret' = ret
          ELSE /\ alive' = "live"
               /\ ret'.kind \in {"some", "none"} ]_vars

\* C19 witness: the generator returned an id, the system clock was set back
\* before the epoch, and the next generate call panicked.
C19_Witness ==
    /\ alive = "panicked"
    /\ calls = 2
    /\ IsSome(ret)
    /\ wall < epoch
    /\ idx = 1

====
